---- MODULE Spec2Model ----
(***************************************************************************)
(* PyTCP: the ICMPv4 and UDP packet classes (ps_icmpv4.py, ps_udp.py) and  *)
(* the bootstrap of the stack (stack.py).                                  *)
(*                                                                         *)
(* Bytes objects are sequences of integers 0..255.  A Python object is a   *)
(* record of its attributes; `has` is the set of the attribute names that  *)
(* the constructor assigned, so that reading an attribute that was never   *)
(* assigned is an AttributeError.  An operation that raises leaves the     *)
(* name of the exception in `raised`.                                      *)
(***************************************************************************)
EXTENDS Integers, Sequences, FiniteSets, TLC

VARIABLES
    parent,         \* the received parent packet handed to the parsers
    pkt,            \* the UdpPacket / Icmp4Packet object under construction or use
    origin,         \* "none", "built" or "parsed": the constructor branch taken
    args,           \* the arguments the constructor was called with
    out,            \* bytes returned by the last get_raw_packet call
    prev_out,       \* bytes returned by the get_raw_packet call before it
    calls,          \* number of get_raw_packet calls on pkt
    last_ph,        \* pseudo header passed to the last UdpPacket.get_raw_packet
    raised,         \* exception raised by the last operation, or "none"
    tracker_count,  \* number of Tracker objects created so far
    pc,             \* position of main() in stack.py
    tap,            \* file descriptor returned by os.open, 0 before
    objs,           \* components created by main(), in creation order
    udp_socket_ph,  \* UdpSocket.packet_handler class attribute (0: not set)
    started,        \* services and clients started, in start order
    sleeps          \* iterations of main's sleep loop

codec_vars == <<parent, pkt, origin, args, out, prev_out, calls, last_ph, raised,
                tracker_count>>
main_vars == <<pc, tap, objs, udp_socket_ph, started, sleeps>>
vars == <<parent, pkt, origin, args, out, prev_out, calls, last_ph, raised,
          tracker_count, pc, tap, objs, udp_socket_ph, started, sleeps>>

(***************************************************************************)
(* Bounds of the model.                                                    *)
(***************************************************************************)
MaxLen == 2         \* longest payload of a built UDP datagram / echo message
MaxCalls == 2       \* get_raw_packet calls followed on one packet
MaxTrackers == 2    \* Tracker objects created in one run
MaxUnExtra == 2     \* bytes by which the longest offending datagram exceeds 520
MaxSleeps == 40     \* iterations of main's sleep loop followed
MaxFd == 5          \* largest file descriptor os.open may return

(***************************************************************************)
(* Python and struct helpers.                                              *)
(***************************************************************************)
Min(a, b) == IF a < b THEN a ELSE b

\* s[a:b] for a, b >= 0
Slice(s, a, b) ==
    LET lo == Min(a, Len(s))
        hi == Min(b, Len(s))
    IN  IF lo >= hi THEN <<>> ELSE SubSeq(s, lo + 1, hi)

\* s[a:]
SliceFrom(s, a) == Slice(s, a, Len(s))

InRangeB(x) == x >= 0 /\ x <= 255
InRangeH(x) == x >= 0 /\ x <= 65535
InRangeL(x) == x >= 0 /\ x \div 65536 <= 65535

\* struct.pack("!B" / "!H" / "!L", x) for x in range
PackB(x) == <<x>>
PackH(x) == <<x \div 256, x % 256>>
PackL(x) == <<x \div 16777216, (x \div 65536) % 256, (x \div 256) % 256, x % 256>>

\* struct.unpack("!H" / "!L", b)[0]; b must be exactly 2 / 4 bytes long
\* (the model's integers hold the "!L" values below 2^31)
UnpackH(b) == b[1] * 256 + b[2]
UnpackL(b) == b[1] * 16777216 + b[2] * 65536 + b[3] * 256 + b[4]
UnpackExc(size, b) == IF Len(b) = size THEN "none" ELSE "struct.error"

\* struct.unpack(f"! {len(d) >> 1}H", d) for d of even length
Words(d) == [i \in 1..(Len(d) \div 2) |-> d[2 * i - 1] * 256 + d[2 * i]]

\* sum(seq)
RECURSIVE SumRange(_, _, _)
SumRange(w, lo, hi) ==
    IF lo > hi THEN 0
    ELSE IF lo = hi THEN w[lo]
    ELSE LET mid == (lo + hi) \div 2
         IN  SumRange(w, lo, mid) + SumRange(w, mid + 1, hi)
Sum(w) == SumRange(w, 1, Len(w))

\* ~x & 0xFFFF
Not16(x) == 65535 - (x % 65536)

\* first exception of a sequence of steps, "none" if there is none
RECURSIVE FirstExc(_)
FirstExc(es) ==
    IF es = <<>> THEN "none"
    ELSE IF Head(es) # "none" THEN Head(es) ELSE FirstExc(Tail(es))

(***************************************************************************)
(* Tracker (tracker.py is not part of the excerpt): a direction tag, a     *)
(* serial assigned in creation order and an optional back-link.            *)
(***************************************************************************)
NoTracker == [prefix |-> "None", serial |-> 0, echo_serial |-> 0]

Tracker(prefix, echo_tracker, serial) ==
    [prefix |-> prefix, serial |-> serial, echo_serial |-> echo_tracker.serial]

(***************************************************************************)
(* inet_cksum.compute_cksum (inet_cksum.py is not part of the excerpt):    *)
(* the 16-bit one's-complement of the one's-complement sum of the data,    *)
(* zero-padded to an even length.                                          *)
(***************************************************************************)
RECURSIVE Fold16(_)
Fold16(x) == IF x <= 65535 THEN x ELSE Fold16((x % 65536) + (x \div 65536))

Pad(d) == IF Len(d) % 2 = 1 THEN d \o <<0>> ELSE d

inet_compute_cksum(data) == Not16(Fold16(Sum(Words(Pad(data)))))

(***************************************************************************)
(* ps_udp.py                                                               *)
(***************************************************************************)
UDP_HEADER_LEN == 8

NoPacket == [protocol |-> "none"]

\* UdpPacket.__init__, parsing branch
Udp_init_parse_exc(parent_packet) ==
    LET raw_packet == parent_packet.raw_data
        raw_header == Slice(raw_packet, 0, UDP_HEADER_LEN)
    IN  FirstExc(<<UnpackExc(2, Slice(raw_header, 4, 6)),
                   UnpackExc(2, Slice(raw_header, 0, 2)),
                   UnpackExc(2, Slice(raw_header, 2, 4)),
                   UnpackExc(2, Slice(raw_header, 4, 6)),
                   UnpackExc(2, Slice(raw_header, 6, 8))>>)

\* the parsing branch with the payload sliced to the end of the buffer
Udp_init_parse_whole_buffer(parent_packet) ==
    LET raw_packet == parent_packet.raw_data
        raw_header == Slice(raw_packet, 0, UDP_HEADER_LEN)
    IN  [protocol |-> "UDP",
         tracker |-> parent_packet.tracker,
         raw_data |-> SliceFrom(raw_packet, UDP_HEADER_LEN),
         ip_pseudo_header |-> parent_packet.ip_pseudo_header,
         udp_sport |-> UnpackH(Slice(raw_header, 0, 2)),
         udp_dport |-> UnpackH(Slice(raw_header, 2, 4)),
         udp_len |-> UnpackH(Slice(raw_header, 4, 6)),
         udp_cksum |-> UnpackH(Slice(raw_header, 6, 8)),
         has |-> {"tracker", "raw_data", "ip_pseudo_header", "udp_sport", "udp_dport",
                  "udp_len", "udp_cksum"}]

Udp_init_parse(parent_packet) ==
    LET raw_packet == parent_packet.raw_data
        raw_header == Slice(raw_packet, 0, UDP_HEADER_LEN)
    IN  [protocol |-> "UDP",
         tracker |-> parent_packet.tracker,
         raw_data |-> Slice(raw_packet, UDP_HEADER_LEN, UnpackH(Slice(raw_header, 4, 6))),
         ip_pseudo_header |-> parent_packet.ip_pseudo_header,
         udp_sport |-> UnpackH(Slice(raw_header, 0, 2)),
         udp_dport |-> UnpackH(Slice(raw_header, 2, 4)),
         udp_len |-> UnpackH(Slice(raw_header, 4, 6)),
         udp_cksum |-> UnpackH(Slice(raw_header, 6, 8)),
         has |-> {"tracker", "raw_data", "ip_pseudo_header", "udp_sport", "udp_dport",
                  "udp_len", "udp_cksum"}]

\* the building branch with the echo_tracker argument dropped
Udp_init_build_no_echo(udp_sport, udp_dport, raw_data, echo_tracker, serial) ==
    [protocol |-> "UDP",
     tracker |-> Tracker("TX", NoTracker, serial),
     raw_data |-> raw_data,
     ip_pseudo_header |-> <<>>,
     udp_sport |-> udp_sport,
     udp_dport |-> udp_dport,
     udp_len |-> UDP_HEADER_LEN + Len(raw_data),
     udp_cksum |-> 0,
     has |-> {"tracker", "raw_data", "udp_sport", "udp_dport", "udp_len", "udp_cksum"}]

\* UdpPacket.__init__, building branch
Udp_init_build(udp_sport, udp_dport, raw_data, echo_tracker, serial) ==
    [protocol |-> "UDP",
     tracker |-> Tracker("TX", echo_tracker, serial),
     raw_data |-> raw_data,
     ip_pseudo_header |-> <<>>,
     udp_sport |-> udp_sport,
     udp_dport |-> udp_dport,
     udp_len |-> UDP_HEADER_LEN + Len(raw_data),
     udp_cksum |-> 0,
     has |-> {"tracker", "raw_data", "udp_sport", "udp_dport", "udp_len", "udp_cksum"}]

\* UdpPacket.raw_header
Udp_raw_header_exc(self) ==
    IF InRangeH(self.udp_sport) /\ InRangeH(self.udp_dport)
       /\ InRangeH(self.udp_len) /\ InRangeH(self.udp_cksum)
    THEN "none" ELSE "struct.error"

Udp_raw_header(self) ==
    PackH(self.udp_sport) \o PackH(self.udp_dport) \o PackH(self.udp_len)
    \o PackH(self.udp_cksum)

\* raw_packet with the checksum pad byte left in
Udp_raw_packet_padded(self) ==
    Udp_raw_header(self) \o self.raw_data
    \o (IF Len(self.raw_data) % 2 = 1 THEN <<0>> ELSE <<>>)

\* UdpPacket.raw_packet
Udp_raw_packet(self) == Udp_raw_header(self) \o self.raw_data

\* UdpPacket.compute_cksum
Udp_cksum_data(self, ip_pseudo_header) ==
    ip_pseudo_header \o Udp_raw_packet(self)
    \o (IF Len(Udp_raw_packet(self)) % 2 = 1 THEN <<0>> ELSE <<>>)

Udp_compute_cksum_exc(self, ip_pseudo_header) ==
    IF Udp_raw_header_exc(self) # "none" THEN Udp_raw_header_exc(self)
    ELSE IF Len(Udp_cksum_data(self, ip_pseudo_header)) % 2 = 1 THEN "struct.error"
    ELSE IF Len(Udp_cksum_data(self, ip_pseudo_header)) \div 2 < 6 + 3 + 1 THEN "IndexError"
    ELSE "none"

Udp_compute_cksum(self, ip_pseudo_header) ==
    LET cksum_data == [Words(Udp_cksum_data(self, ip_pseudo_header)) EXCEPT ![6 + 3 + 1] = 0]
        cksum == Sum(cksum_data)
    IN  Not16((cksum % 65536) + (cksum \div 65536))

\* UdpPacket.get_raw_packet: the packet after the call, and the bytes returned
Udp_get_raw_packet_self(self, ip_pseudo_header) ==
    [self EXCEPT !.udp_cksum = Udp_compute_cksum(self, ip_pseudo_header)]

Udp_get_raw_packet(self, ip_pseudo_header) ==
    Udp_raw_packet(Udp_get_raw_packet_self(self, ip_pseudo_header))

(***************************************************************************)
(* ps_icmpv4.py                                                            *)
(***************************************************************************)
ICMP4_ECHOREPLY == 0
ICMP4_UNREACHABLE == 3
ICMP4_UNREACHABLE_PORT == 3
ICMP4_ECHOREQUEST == 8

\* the slice bound of icmpv4_un_raw_data[:520]
UnreachableDataLimit == 520

Icmp4Blank ==
    [protocol |-> "ICMPv4", tracker |-> NoTracker,
     icmpv4_type |-> 0, icmpv4_code |-> 0, icmpv4_cksum |-> 0,
     icmpv4_ec_id |-> 0, icmpv4_ec_seq |-> 0, icmpv4_ec_raw_data |-> <<>>,
     icmpv4_un_reserved |-> 0, icmpv4_un_raw_data |-> <<>>,
     unknown_message |-> <<>>, has |-> {}]

IndexExc(raw, i) == IF i < Len(raw) THEN "none" ELSE "IndexError"

\* Icmp4Packet.__init__, parsing branch
Icmp4_init_parse_exc(parent_packet) ==
    LET raw_packet == parent_packet.raw_data
        common == <<IndexExc(raw_packet, 0), IndexExc(raw_packet, 1),
                    UnpackExc(2, Slice(raw_packet, 2, 4))>>
    IN  IF FirstExc(common) # "none" THEN FirstExc(common)
        ELSE IF raw_packet[1] = ICMP4_ECHOREPLY
        THEN FirstExc(<<UnpackExc(2, Slice(raw_packet, 4, 6)),
                        UnpackExc(2, Slice(raw_packet, 6, 8))>>)
        ELSE IF raw_packet[1] = ICMP4_UNREACHABLE
        THEN UnpackExc(4, Slice(raw_packet, 4, 6))
        ELSE IF raw_packet[1] = ICMP4_ECHOREQUEST
        THEN FirstExc(<<UnpackExc(2, Slice(raw_packet, 4, 6)),
                        UnpackExc(2, Slice(raw_packet, 6, 8))>>)
        ELSE "none"

Icmp4_init_parse(parent_packet) ==
    LET raw_packet == parent_packet.raw_data
        common == [Icmp4Blank EXCEPT !.tracker = parent_packet.tracker,
                                     !.icmpv4_type = raw_packet[1],
                                     !.icmpv4_code = raw_packet[2],
                                     !.icmpv4_cksum = UnpackH(Slice(raw_packet, 2, 4)),
                                     !.has = {"tracker", "icmpv4_type", "icmpv4_code",
                                              "icmpv4_cksum"}]
        echo == [common EXCEPT !.icmpv4_ec_id = UnpackH(Slice(raw_packet, 4, 6)),
                               !.icmpv4_ec_seq = UnpackH(Slice(raw_packet, 6, 8)),
                               !.icmpv4_ec_raw_data = SliceFrom(raw_packet, 8),
                               !.has = common.has \cup {"icmpv4_ec_id", "icmpv4_ec_seq",
                                                        "icmpv4_ec_raw_data"}]
    IN  IF raw_packet[1] = ICMP4_ECHOREPLY THEN echo
        ELSE IF raw_packet[1] = ICMP4_UNREACHABLE
        THEN [common EXCEPT !.icmpv4_un_reserved = UnpackL(Slice(raw_packet, 4, 6)),
                            !.icmpv4_un_raw_data = SliceFrom(raw_packet, 8),
                            !.has = common.has \cup {"icmpv4_un_reserved",
                                                     "icmpv4_un_raw_data"}]
        ELSE IF raw_packet[1] = ICMP4_ECHOREQUEST THEN echo
        ELSE [common EXCEPT !.unknown_message = SliceFrom(raw_packet, 4),
                            !.has = common.has \cup {"unknown_message"}]

\* the data of the offending datagram, not truncated
Icmp4_un_data_untruncated(icmpv4_un_raw_data) == icmpv4_un_raw_data

\* icmpv4_un_raw_data[:520]
Icmp4_un_data(icmpv4_un_raw_data) == Slice(icmpv4_un_raw_data, 0, UnreachableDataLimit)

\* Icmp4Packet.__init__, building branch
Icmp4_init_build(icmpv4_type, icmpv4_code, icmpv4_ec_id, icmpv4_ec_seq, icmpv4_ec_raw_data, icmpv4_un_raw_data, echo_tracker, serial) ==
    LET common == [Icmp4Blank EXCEPT !.tracker = Tracker("TX", echo_tracker, serial),
                                     !.icmpv4_type = icmpv4_type,
                                     !.icmpv4_code = icmpv4_code,
                                     !.icmpv4_cksum = 0,
                                     !.has = {"tracker", "icmpv4_type", "icmpv4_code",
                                              "icmpv4_cksum"}]
        echo == [common EXCEPT !.icmpv4_ec_id = icmpv4_ec_id,
                               !.icmpv4_ec_seq = icmpv4_ec_seq,
                               !.icmpv4_ec_raw_data = icmpv4_ec_raw_data,
                               !.has = common.has \cup {"icmpv4_ec_id", "icmpv4_ec_seq",
                                                        "icmpv4_ec_raw_data"}]
    IN  IF icmpv4_type = ICMP4_ECHOREPLY /\ icmpv4_code = 0 THEN echo
        ELSE IF icmpv4_type = ICMP4_UNREACHABLE /\ icmpv4_code = ICMP4_UNREACHABLE_PORT
        THEN [common EXCEPT !.icmpv4_un_reserved = 0,
                            !.icmpv4_un_raw_data = Icmp4_un_data(icmpv4_un_raw_data),
                            !.has = common.has \cup {"icmpv4_un_reserved",
                                                     "icmpv4_un_raw_data"}]
        ELSE IF icmpv4_type = ICMP4_ECHOREQUEST /\ icmpv4_code = 0 THEN echo
        ELSE common

AttrExc(self, name) == IF name \in self.has THEN "none" ELSE "AttributeError"
RangeExc(ok) == IF ok THEN "none" ELSE "struct.error"

\* Icmp4Packet.raw_packet
Icmp4_raw_packet_exc(self) ==
    LET prefix_ok == InRangeB(self.icmpv4_type) /\ InRangeB(self.icmpv4_code)
                     /\ InRangeH(self.icmpv4_cksum)
        echo == FirstExc(<<AttrExc(self, "icmpv4_ec_id"), AttrExc(self, "icmpv4_ec_seq"),
                           RangeExc(prefix_ok /\ InRangeH(self.icmpv4_ec_id)
                                    /\ InRangeH(self.icmpv4_ec_seq)),
                           AttrExc(self, "icmpv4_ec_raw_data")>>)
    IN  IF self.icmpv4_type = ICMP4_ECHOREPLY THEN echo
        ELSE IF self.icmpv4_type = ICMP4_UNREACHABLE
                /\ self.icmpv4_code = ICMP4_UNREACHABLE_PORT
        THEN FirstExc(<<AttrExc(self, "icmpv4_un_reserved"),
                        RangeExc(prefix_ok /\ InRangeL(self.icmpv4_un_reserved)),
                        AttrExc(self, "icmpv4_un_raw_data")>>)
        ELSE IF self.icmpv4_type = ICMP4_ECHOREQUEST THEN echo
        ELSE FirstExc(<<RangeExc(prefix_ok), AttrExc(self, "unknown_message")>>)

Icmp4_raw_packet(self) ==
    LET prefix == PackB(self.icmpv4_type) \o PackB(self.icmpv4_code)
                  \o PackH(self.icmpv4_cksum)
        echo == prefix \o PackH(self.icmpv4_ec_id) \o PackH(self.icmpv4_ec_seq)
                \o self.icmpv4_ec_raw_data
    IN  IF self.icmpv4_type = ICMP4_ECHOREPLY THEN echo
        ELSE IF self.icmpv4_type = ICMP4_UNREACHABLE
                /\ self.icmpv4_code = ICMP4_UNREACHABLE_PORT
        THEN prefix \o PackL(self.icmpv4_un_reserved) \o self.icmpv4_un_raw_data
        ELSE IF self.icmpv4_type = ICMP4_ECHOREQUEST THEN echo
        ELSE prefix \o self.unknown_message

\* Icmp4Packet.get_raw_packet: the packet after the call, and the bytes returned
Icmp4_get_raw_packet_self(self) ==
    [self EXCEPT !.icmpv4_cksum = inet_compute_cksum(Icmp4_raw_packet(self))]

Icmp4_get_raw_packet(self) == Icmp4_raw_packet(Icmp4_get_raw_packet_self(self))

\* Icmp4Packet.validate_cksum
Icmp4_validate_cksum(self) == inet_compute_cksum(Icmp4_raw_packet(self)) = 0

(***************************************************************************)
(* Inputs.                                                                 *)
(***************************************************************************)
Bytes == {0, 255}
ByteSeqs(n) == UNION {[1..k -> Bytes] : k \in 0..n}

Ports == {7, 68, 65432}

IP_PROTO_ICMPv4 == 1
IP_PROTO_UDP == 17

\* (source, destination) addresses of the enclosing IPv4 packet
AddrPairs == {<<<<0, 0, 0, 0>>, <<255, 255, 255, 255>>>>,
              <<<<192, 168, 9, 7>>, <<192, 168, 9, 1>>>>}

\* the 12-byte pseudo header {src, dst, zero, protocol, upper_layer_length}
PseudoHeader(src, dst, proto, length) == src \o dst \o <<0, proto>> \o PackH(length)

\* received UDP datagrams: the length field below, equal to and above the
\* number of bytes received, and one datagram cut inside its header
RxUdpBuffers ==
    {PackH(67) \o PackH(68) \o PackH(l) \o PackH(4660) \o body :
        l \in {4, 8, 9, 10, 11}, body \in {<<>>, <<1>>, <<1, 2>>}}
    \cup {<<0, 67, 0, 68, 0>>}

IcmpMessage(type, code, cksum, rest, data) ==
    PackB(type) \o PackB(code) \o PackH(cksum) \o rest \o data

\* received ICMPv4 messages: with a checksum of zero and with the right
\* checksum, and three messages cut inside their first 8 bytes
RxIcmpBodies ==
    {<<tc[1], tc[2], <<18, 52, 0, 1>>, data>> :
        tc \in {<<0, 0>>, <<8, 0>>, <<3, 1>>, <<3, 3>>, <<3, 4>>, <<13, 0>>},
        data \in {<<>>, <<104, 105, 33>>}}

RxIcmpMessages ==
    {IcmpMessage(b[1], b[2], 0, b[3], b[4]) : b \in RxIcmpBodies}
    \cup {IcmpMessage(b[1], b[2],
                      inet_compute_cksum(IcmpMessage(b[1], b[2], 0, b[3], b[4])),
                      b[3], b[4]) : b \in RxIcmpBodies}
    \cup {<<8>>, <<8, 0, 0>>, <<8, 0, 0, 0, 18, 52>>}

\* the offending datagram quoted by a Destination Unreachable message
PatternData(n) == [i \in 1..n |-> (7 * i) % 256]
UnLengths == {0, 1, 28, UnreachableDataLimit - 1}
             \cup {UnreachableDataLimit + k : k \in 0..MaxUnExtra}

NoParent == [present |-> FALSE, tracker |-> NoTracker, raw_data |-> <<>>,
             ip_pseudo_header |-> <<>>]
NoArgs == [udp_sport |-> 0, udp_dport |-> 0, raw_data |-> <<>>,
           icmpv4_type |-> 0, icmpv4_code |-> 0, icmpv4_ec_id |-> 0, icmpv4_ec_seq |-> 0,
           icmpv4_ec_raw_data |-> <<>>, icmpv4_un_raw_data |-> <<>>,
           echo_tracker |-> NoTracker]

\* echo_tracker arguments a caller can pass: none, or the tracker of the
\* received frame it answers
EchoTrackers == {NoTracker} \cup (IF parent.present THEN {parent.tracker} ELSE {})

(***************************************************************************)
(* Operations on packets.                                                  *)
(***************************************************************************)
MainUnchanged == UNCHANGED main_vars

Fresh(exc, branch, a) ==
    /\ origin' = branch
    /\ args' = a
    /\ out' = <<>>
    /\ prev_out' = <<>>
    /\ calls' = 0
    /\ last_ph' = <<>>
    /\ raised' = exc

\* a frame is received: the parent packet carries a fresh RX tracker, and
\* the packet values of the previous frame are discarded (packet values are
\* created per frame: a packet is built where none is held)
RxFrame(raw_data, proto) ==
    /\ tracker_count < MaxTrackers
    /\ tracker_count' = tracker_count + 1
    /\ parent' = [present |-> TRUE,
                  tracker |-> Tracker("RX", NoTracker, tracker_count + 1),
                  raw_data |-> raw_data,
                  ip_pseudo_header |->
                      PseudoHeader(<<192, 168, 9, 1>>, <<192, 168, 9, 7>>, proto,
                                   Len(raw_data))]
    /\ pkt' = NoPacket
    /\ Fresh("none", "none", NoArgs)
    /\ MainUnchanged

\* UdpPacket(parent_packet)
UdpParse ==
    /\ parent.present
    /\ parent.ip_pseudo_header[10] = IP_PROTO_UDP
    /\ pkt' = IF Udp_init_parse_exc(parent) = "none" THEN Udp_init_parse(parent)
              ELSE NoPacket
    /\ Fresh(Udp_init_parse_exc(parent), "parsed", NoArgs)
    /\ UNCHANGED <<parent, tracker_count>>
    /\ MainUnchanged

\* UdpPacket(udp_sport=, udp_dport=, raw_data=, echo_tracker=)
UdpBuild(udp_sport, udp_dport, raw_data, echo_tracker) ==
    /\ pkt = NoPacket
    /\ tracker_count < MaxTrackers
    /\ tracker_count' = tracker_count + 1
    /\ pkt' = Udp_init_build(udp_sport, udp_dport, raw_data, echo_tracker,
                             tracker_count + 1)
    /\ Fresh("none", "built",
             [NoArgs EXCEPT !.udp_sport = udp_sport, !.udp_dport = udp_dport,
                            !.raw_data = raw_data, !.echo_tracker = echo_tracker])
    /\ UNCHANGED parent
    /\ MainUnchanged

\* UdpPacket.get_raw_packet(ip_pseudo_header)
UdpGetRawPacket(ip_pseudo_header) ==
    /\ pkt.protocol = "UDP"
    /\ calls < MaxCalls
    /\ calls' = calls + 1
    /\ raised' = Udp_compute_cksum_exc(pkt, ip_pseudo_header)
    /\ last_ph' = ip_pseudo_header
    /\ IF Udp_compute_cksum_exc(pkt, ip_pseudo_header) = "none"
       THEN /\ pkt' = Udp_get_raw_packet_self(pkt, ip_pseudo_header)
            /\ out' = Udp_get_raw_packet(pkt, ip_pseudo_header)
       ELSE /\ pkt' = pkt
            /\ out' = <<>>
    /\ UNCHANGED <<parent, origin, args, prev_out, tracker_count>>
    /\ MainUnchanged

\* Icmp4Packet(parent_packet)
Icmp4Parse ==
    /\ parent.present
    /\ parent.ip_pseudo_header[10] = IP_PROTO_ICMPv4
    /\ pkt' = IF Icmp4_init_parse_exc(parent) = "none" THEN Icmp4_init_parse(parent)
              ELSE NoPacket
    /\ Fresh(Icmp4_init_parse_exc(parent), "parsed", NoArgs)
    /\ UNCHANGED <<parent, tracker_count>>
    /\ MainUnchanged

\* Icmp4Packet(icmpv4_type=, icmpv4_code=, icmpv4_ec_id=, icmpv4_ec_seq=,
\*             icmpv4_ec_raw_data=, icmpv4_un_raw_data=, echo_tracker=)
Icmp4Build(icmpv4_type, icmpv4_code, icmpv4_ec_id, icmpv4_ec_seq, icmpv4_ec_raw_data, icmpv4_un_raw_data, echo_tracker) ==
    /\ pkt = NoPacket
    /\ tracker_count < MaxTrackers
    /\ tracker_count' = tracker_count + 1
    /\ pkt' = Icmp4_init_build(icmpv4_type, icmpv4_code, icmpv4_ec_id, icmpv4_ec_seq,
                               icmpv4_ec_raw_data, icmpv4_un_raw_data, echo_tracker,
                               tracker_count + 1)
    /\ Fresh("none", "built",
             [NoArgs EXCEPT !.icmpv4_type = icmpv4_type, !.icmpv4_code = icmpv4_code,
                            !.icmpv4_ec_id = icmpv4_ec_id,
                            !.icmpv4_ec_seq = icmpv4_ec_seq,
                            !.icmpv4_ec_raw_data = icmpv4_ec_raw_data,
                            !.icmpv4_un_raw_data = icmpv4_un_raw_data,
                            !.echo_tracker = echo_tracker])
    /\ UNCHANGED parent
    /\ MainUnchanged

\* Icmp4Packet.get_raw_packet()
Icmp4GetRawPacket ==
    /\ pkt.protocol = "ICMPv4"
    /\ calls < MaxCalls
    /\ calls' = calls + 1
    /\ raised' = Icmp4_raw_packet_exc(pkt)
    /\ IF Icmp4_raw_packet_exc(pkt) = "none"
       THEN /\ pkt' = Icmp4_get_raw_packet_self(pkt)
            /\ out' = Icmp4_get_raw_packet(pkt)
            /\ prev_out' = out
       ELSE /\ pkt' = pkt
            /\ out' = <<>>
            /\ prev_out' = <<>>
    /\ UNCHANGED <<parent, origin, args, last_ph, tracker_count>>
    /\ MainUnchanged

Init ==
    /\ parent = NoParent
    /\ pkt = NoPacket
    /\ origin = "none"
    /\ args = NoArgs
    /\ out = <<>>
    /\ prev_out = <<>>
    /\ calls = 0
    /\ last_ph = <<>>
    /\ raised = "none"
    /\ tracker_count = 0
    /\ pc = "start"
    /\ tap = 0
    /\ objs = <<>>
    /\ udp_socket_ph = 0
    /\ started = <<>>
    /\ sleeps = 0

Next ==
    \/ \E b \in RxUdpBuffers : RxFrame(b, IP_PROTO_UDP)
    \/ \E b \in RxIcmpMessages : RxFrame(b, IP_PROTO_ICMPv4)
    \/ UdpParse
    \/ \E s \in Ports, d \in Ports, data \in ByteSeqs(MaxLen), e \in EchoTrackers :
          UdpBuild(s, d, data, e)
    \/ \E p \in AddrPairs :
          /\ pkt.protocol = "UDP"
          /\ UdpGetRawPacket(PseudoHeader(p[1], p[2], IP_PROTO_UDP, pkt.udp_len))
    \/ Icmp4Parse
    \/ \E t \in {ICMP4_ECHOREPLY, ICMP4_ECHOREQUEST}, c \in {0, 1},
          data \in ByteSeqs(MaxLen), e \in EchoTrackers :
          Icmp4Build(t, c, 4660, 1, data, <<>>, e)
    \/ \E c \in {1, ICMP4_UNREACHABLE_PORT}, n \in UnLengths, e \in EchoTrackers :
          Icmp4Build(ICMP4_UNREACHABLE, c, 0, 0, <<>>, PatternData(n), e)
    \/ \E e \in EchoTrackers : Icmp4Build(13, 0, 0, 0, <<>>, <<>>, e)
    \/ Icmp4GetRawPacket

Spec == Init /\ [][Next]_vars

(***************************************************************************)
(* stack.py: main().  Components are records in `objs`; a reference to a   *)
(* component is its position in `objs`.  os.open and fcntl.ioctl may raise *)
(* OSError, which ends main.                                               *)
(***************************************************************************)
STACK_MAC_ADDRESS == "02:00:00:77:77:77"
STACK_IP_ADDRESS == <<>>

CodecUnchanged == UNCHANGED codec_vars

Ref(cls) == CHOOSE i \in 1..Len(objs) : objs[i].cls = cls

\* loguru.logger.remove(0)
MainLoggerRemove ==
    /\ pc = "start"
    /\ pc' = "logger_add"
    /\ UNCHANGED <<tap, objs, udp_socket_ph, started, sleeps>>
    /\ CodecUnchanged

\* loguru.logger.add(...)
MainLoggerAdd ==
    /\ pc = "logger_add"
    /\ pc' = "open"
    /\ UNCHANGED <<tap, objs, udp_socket_ph, started, sleeps>>
    /\ CodecUnchanged

\* tap = os.open("/dev/net/tun", os.O_RDWR)
MainOpen(fd) ==
    /\ pc = "open"
    /\ pc' = "ioctl"
    /\ tap' = fd
    /\ UNCHANGED <<objs, udp_socket_ph, started, sleeps>>
    /\ CodecUnchanged

MainOpenFails ==
    /\ pc = "open"
    /\ pc' = "OSError"
    /\ UNCHANGED <<tap, objs, udp_socket_ph, started, sleeps>>
    /\ CodecUnchanged

\* fcntl.ioctl(tap, TUNSETIFF, ...)
MainIoctl ==
    /\ pc = "ioctl"
    /\ pc' = "rx_ring"
    /\ UNCHANGED <<tap, objs, udp_socket_ph, started, sleeps>>
    /\ CodecUnchanged

MainIoctlFails ==
    /\ pc = "ioctl"
    /\ pc' = "OSError"
    /\ UNCHANGED <<tap, objs, udp_socket_ph, started, sleeps>>
    /\ CodecUnchanged

Component(cls) ==
    [cls |-> cls, tap |-> 0, mac |-> "", ip |-> <<>>, rx_ring |-> 0, tx_ring |-> 0,
     arp_cache |-> 0]

\* rx_ring = RxRing(tap, STACK_MAC_ADDRESS)
MainRxRing ==
    /\ pc = "rx_ring"
    /\ pc' = "tx_ring"
    /\ objs' = Append(objs, [Component("RxRing") EXCEPT !.tap = tap,
                                                        !.mac = STACK_MAC_ADDRESS])
    /\ UNCHANGED <<tap, udp_socket_ph, started, sleeps>>
    /\ CodecUnchanged

\* tx_ring = TxRing(tap, STACK_MAC_ADDRESS)
MainTxRing ==
    /\ pc = "tx_ring"
    /\ pc' = "arp_cache"
    /\ objs' = Append(objs, [Component("TxRing") EXCEPT !.tap = tap,
                                                        !.mac = STACK_MAC_ADDRESS])
    /\ UNCHANGED <<tap, udp_socket_ph, started, sleeps>>
    /\ CodecUnchanged

\* arp_cache = ArpCache()
MainArpCache ==
    /\ pc = "arp_cache"
    /\ pc' = "packet_handler"
    /\ objs' = Append(objs, Component("ArpCache"))
    /\ UNCHANGED <<tap, udp_socket_ph, started, sleeps>>
    /\ CodecUnchanged

\* packet_handler = PacketHandler(STACK_MAC_ADDRESS, STACK_IP_ADDRESS, rx_ring,
\*                                tx_ring, arp_cache)
MainPacketHandler ==
    /\ pc = "packet_handler"
    /\ pc' = "set_packet_handler"
    /\ objs' = Append(objs, [Component("PacketHandler") EXCEPT
                                !.mac = STACK_MAC_ADDRESS,
                                !.ip = STACK_IP_ADDRESS,
                                !.rx_ring = Ref("RxRing"),
                                !.tx_ring = Ref("TxRing"),
                                !.arp_cache = Ref("ArpCache")])
    /\ UNCHANGED <<tap, udp_socket_ph, started, sleeps>>
    /\ CodecUnchanged

\* main with the set_packet_handler call left out
MainSetPacketHandler_skipped ==
    /\ pc = "set_packet_handler"
    /\ pc' = "service_udp_echo"
    /\ UNCHANGED <<tap, objs, udp_socket_ph, started, sleeps>>
    /\ CodecUnchanged

\* UdpSocket.set_packet_handler(packet_handler)
MainSetPacketHandler ==
    /\ pc = "set_packet_handler"
    /\ pc' = "service_udp_echo"
    /\ udp_socket_ph' = Ref("PacketHandler")
    /\ UNCHANGED <<tap, objs, started, sleeps>>
    /\ CodecUnchanged

\* ServiceUdpEcho()
MainServiceUdpEcho ==
    /\ pc = "service_udp_echo"
    /\ pc' = "client_udp_dhcp"
    /\ started' = Append(started, [cls |-> "ServiceUdpEcho",
                                   packet_handler |-> udp_socket_ph])
    /\ UNCHANGED <<tap, objs, udp_socket_ph, sleeps>>
    /\ CodecUnchanged

\* ClientUdpDhcp()
MainClientUdpDhcp ==
    /\ pc = "client_udp_dhcp"
    /\ pc' = "sleep"
    /\ started' = Append(started, [cls |-> "ClientUdpDhcp",
                                   packet_handler |-> udp_socket_ph])
    /\ UNCHANGED <<tap, objs, udp_socket_ph, sleeps>>
    /\ CodecUnchanged

\* while True: time.sleep(1)
MainSleep ==
    /\ pc = "sleep"
    /\ sleeps < MaxSleeps
    /\ sleeps' = sleeps + 1
    /\ UNCHANGED <<pc, tap, objs, udp_socket_ph, started>>
    /\ CodecUnchanged

NextMain ==
    \/ MainLoggerRemove
    \/ MainLoggerAdd
    \/ \E fd \in 3..MaxFd : MainOpen(fd)
    \/ MainOpenFails
    \/ MainIoctl
    \/ MainIoctlFails
    \/ MainRxRing
    \/ MainTxRing
    \/ MainArpCache
    \/ MainPacketHandler
    \/ MainSetPacketHandler
    \/ MainServiceUdpEcho
    \/ MainClientUdpDhcp
    \/ MainSleep

SpecMain == Init /\ [][NextMain]_vars

(***************************************************************************)
(* Properties.                                                             *)
(***************************************************************************)
IsUdp == pkt.protocol = "UDP"
IsIcmp4 == pkt.protocol = "ICMPv4"
Returned == calls >= 1 /\ raised = "none"

\* the one's-complement sum of the 16-bit words of d, with end-around carry
OnesComplementSum(d) == Fold16(Sum(Words(Pad(d))))

\* C1: after UdpPacket.get_raw_packet(ph) the one's-complement sum of ph
\* followed by the returned bytes, zero-padded to an even length, is zero
\* (all ones), whatever the packet and the pseudo header.
C1_UdpChecksumZeroSum ==
    (IsUdp /\ Returned) => Not16(OnesComplementSum(last_ph \o out)) = 0

\* C2: the checksum field of the bytes returned by UdpPacket.get_raw_packet
\* is never 0x0000 (a computed checksum of zero is sent as 0xFFFF).
C2_UdpChecksumNeverZero ==
    (IsUdp /\ Returned) => UnpackH(Slice(out, 6, 8)) # 0

\* the ICMP message of self with the checksum field set to zero
Icmp4_zeroed(self) == Icmp4_raw_packet([self EXCEPT !.icmpv4_cksum = 0])

\* C3: every call of Icmp4Packet.get_raw_packet, the first and any later one,
\* on a built or a parsed packet, stores the checksum of the message with the
\* checksum field zeroed; validate_cksum() then holds and successive calls
\* return the same bytes.
C3_Icmp4ChecksumEveryCall ==
    (IsIcmp4 /\ Returned) =>
        /\ pkt.icmpv4_cksum = inet_compute_cksum(Icmp4_zeroed(pkt))
        /\ Icmp4_validate_cksum(pkt)
        /\ (calls >= 2 => out = prev_out)

RxIcmp4 == parent.present /\ parent.ip_pseudo_header[10] = IP_PROTO_ICMPv4
RxUdp == parent.present /\ parent.ip_pseudo_header[10] = IP_PROTO_UDP

\* a received ICMPv4 message of a recognised shape, at least 8 bytes long
RecognisedIcmp4(b) ==
    /\ Len(b) >= 8
    /\ \/ b[1] \in {ICMP4_ECHOREPLY, ICMP4_ECHOREQUEST}
       \/ b[1] = ICMP4_UNREACHABLE /\ b[2] \in 0..5

\* C4: parsing a well-formed Echo Reply, Echo Request or Destination
\* Unreachable (code 0..5) message b of at least 8 bytes succeeds and the
\* parsed packet's raw_packet is b; for Destination Unreachable bytes 4..8
\* are the reserved field and the bytes from offset 8 the data.
C4_Icmp4RoundTrip ==
    (RxIcmp4 /\ origin = "parsed" /\ calls = 0 /\ RecognisedIcmp4(parent.raw_data)) =>
        /\ raised = "none"
        /\ IsIcmp4
        /\ Icmp4_raw_packet_exc(pkt) = "none"
        /\ Icmp4_raw_packet(pkt) = parent.raw_data
        /\ (pkt.icmpv4_type = ICMP4_UNREACHABLE =>
                /\ pkt.icmpv4_un_reserved = UnpackL(Slice(parent.raw_data, 4, 8))
                /\ pkt.icmpv4_un_raw_data = SliceFrom(parent.raw_data, 8))

\* C5: a built UdpPacket has udp_len = 8 + len(raw_data), and the length
\* field of the bytes returned by raw_packet and by get_raw_packet is the
\* number of bytes returned (the pad byte is not among them).
C5_UdpLengthField ==
    (IsUdp /\ origin = "built") =>
        /\ pkt.udp_len = 8 + Len(args.raw_data)
        /\ (Udp_raw_header_exc(pkt) = "none" =>
                UnpackH(Slice(Udp_raw_packet(pkt), 4, 6)) = Len(Udp_raw_packet(pkt)))
        /\ (Returned => UnpackH(Slice(out, 4, 6)) = Len(out))

C5_Witness ==
    /\ IsUdp /\ origin = "built" /\ Returned
    /\ Len(args.raw_data) % 2 = 1
    /\ Len(out) = 8 + Len(args.raw_data)

BuiltPortUnreachable ==
    /\ IsIcmp4 /\ origin = "built"
    /\ args.icmpv4_type = ICMP4_UNREACHABLE /\ args.icmpv4_code = ICMP4_UNREACHABLE_PORT

\* C6: a Destination Unreachable (3/3) packet built from data of any length
\* carries the first min(len, 520) bytes of it: at most 520 bytes, and the
\* serialized message is at most 528 bytes.
C6_UnreachableTruncation ==
    BuiltPortUnreachable =>
        LET given == args.icmpv4_un_raw_data
            n == IF Len(given) < 520 THEN Len(given) ELSE 520
        IN  /\ Len(pkt.icmpv4_un_raw_data) = n
            /\ \A i \in 1..n : pkt.icmpv4_un_raw_data[i] = given[i]
            /\ Len(pkt.icmpv4_un_raw_data) <= 520
            /\ Icmp4_raw_packet_exc(pkt) = "none"
            /\ Len(Icmp4_raw_packet(pkt)) <= 528
            /\ (Returned => Len(out) <= 528)

C6_Witness ==
    /\ BuiltPortUnreachable /\ Returned
    /\ Len(args.icmpv4_un_raw_data) > 520
    /\ Len(pkt.icmpv4_un_raw_data) = 520
    /\ Len(out) = 528

\* the parent packet a receiver makes of the bytes b
Received(b) == [NoParent EXCEPT !.present = TRUE, !.raw_data = b]

\* C7: parsing the bytes of p.get_raw_packet(ph) of a built UdpPacket p gives
\* p's udp_sport, udp_dport, udp_len and raw_data; and parsing a buffer b
\* whose length field is in 8..len(b) gives the payload b[8:length] and a
\* packet whose raw_packet is b[0:length].
C7_UdpRoundTrip ==
    /\ (IsUdp /\ origin = "built" /\ Returned) =>
          /\ Udp_init_parse_exc(Received(out)) = "none"
          /\ Udp_init_parse(Received(out)).udp_sport = args.udp_sport
          /\ Udp_init_parse(Received(out)).udp_dport = args.udp_dport
          /\ Udp_init_parse(Received(out)).udp_len = pkt.udp_len
          /\ Udp_init_parse(Received(out)).raw_data = args.raw_data
    /\ (RxUdp /\ origin = "parsed" /\ calls = 0 /\ Len(parent.raw_data) >= 8
        /\ UnpackH(Slice(parent.raw_data, 4, 6)) \in 8..Len(parent.raw_data)) =>
          LET b == parent.raw_data
              length == UnpackH(Slice(parent.raw_data, 4, 6))
          IN  /\ raised = "none"
              /\ IsUdp
              /\ Len(pkt.raw_data) = length - 8
              /\ \A i \in 1..(length - 8) : pkt.raw_data[i] = b[8 + i]
              /\ Udp_raw_packet(pkt) = [i \in 1..length |-> b[i]]

C7_Witness ==
    /\ RxUdp /\ origin = "parsed" /\ IsUdp /\ raised = "none"
    /\ pkt.udp_len >= 9
    /\ pkt.udp_len < Len(parent.raw_data)
    /\ Len(pkt.raw_data) = pkt.udp_len - 8

\* C8: no built Icmp4Packet exists whose raw_packet cannot be rendered:
\* building a type/code other than 0/0, 8/0 and 3/3 is rejected at
\* construction.
C8_UnknownBuildRejected ==
    (IsIcmp4 /\ origin = "built") => Icmp4_raw_packet_exc(pkt) = "none"

\* a step that runs a constructor's parsing / building branch
ParseStep == origin' = "parsed" /\ calls' = 0
BuildStep == origin' = "built" /\ calls' = 0

\* C9: parsing creates no tracker and the parsed packet carries the parent's
\* RX tracker; building creates exactly one tracker, of direction TX, whose
\* back-link is the echo_tracker passed by the caller (none when not passed).
C9_TrackerProvenance ==
    [][/\ ParseStep =>
            /\ tracker_count' = tracker_count
            /\ (raised' = "none" =>
                    /\ pkt'.tracker = parent.tracker
                    /\ pkt'.tracker.prefix = "RX")
       /\ BuildStep =>
            /\ tracker_count' = tracker_count + 1
            /\ pkt'.tracker.prefix = "TX"
            /\ pkt'.tracker.serial = tracker_count'
            /\ pkt'.tracker.echo_serial = args'.echo_tracker.serial]_vars

C9_Witness ==
    /\ origin = "built" /\ pkt.protocol \in {"UDP", "ICMPv4"}
    /\ parent.present
    /\ parent.tracker.prefix = "RX"
    /\ pkt.tracker.prefix = "TX"
    /\ pkt.tracker.echo_serial = parent.tracker.serial
    /\ pkt.tracker.serial # parent.tracker.serial

BootOrder == <<"RxRing", "TxRing", "ArpCache", "PacketHandler">>
StartOrder == <<"ServiceUdpEcho", "ClientUdpDhcp">>

\* C10: main creates RxRing and TxRing on the opened tap, then ArpCache,
\* then one PacketHandler wired to these three with an empty address list;
\* UdpSocket.set_packet_handler is called with that handler before
\* ServiceUdpEcho and ClientUdpDhcp are started, in this order.
C10_BootstrapOrdering ==
    /\ Len(objs) <= 4
    /\ \A i \in 1..Len(objs) : objs[i].cls = BootOrder[i]
    /\ \A i \in 1..Len(objs) :
          objs[i].cls \in {"RxRing", "TxRing"} => (tap >= 3 /\ objs[i].tap = tap)
    /\ Len(objs) = 4 =>
          /\ objs[4].rx_ring = 1 /\ objs[4].tx_ring = 2 /\ objs[4].arp_cache = 3
          /\ objs[4].ip = <<>>
    /\ udp_socket_ph # 0 => (Len(objs) = 4 /\ udp_socket_ph = 4)
    /\ Len(started) <= 2
    /\ \A i \in 1..Len(started) :
          /\ started[i].cls = StartOrder[i]
          /\ started[i].packet_handler = 4
          /\ Len(objs) = 4
    /\ pc = "sleep" => (Len(started) = 2 /\ udp_socket_ph = 4)

C10_Witness ==
    /\ pc = "sleep" /\ sleeps >= 1
    /\ Len(objs) = 4 /\ Len(started) = 2
    /\ udp_socket_ph = 4

====
